---- MODULE Spec2Model ----
(***************************************************************************)
(* Model of pkg/models/devops/devops.go (devopsOperator).                  *)
(*                                                                         *)
(* Part I  - the run detail aggregator: GetNodesDetail and                 *)
(*           GetBranchNodesDetail, one coordinating thread, one goroutine  *)
(*           per node, a wait-group and a buffered channel.                *)
(* Part II - the resource operator: projects, pipelines and credentials in *)
(*           the resource store, and the sync annotations stamped on them. *)
(*                                                                         *)
(* The two parts use disjoint variables; every specification below runs    *)
(* one part and leaves the other part's variables as Init set them.        *)
(***************************************************************************)
EXTENDS Integers, Sequences, FiniteSets, TLC

(***************************************************************************)
(* Bounds of the model and constants of the program.                       *)
(***************************************************************************)
\* longest node list the remote engine returns under SpecAgg
MaxNodes == 3
\* most steps the remote engine returns for one node
MaxSteps == 2
\* devops.go:51-53
channelMaxCapacity == 100
\* most operations invoked on the resource operator in one run
MaxOps == 3
\* most projects in the store when a run of the listing starts
MaxProjects == 3
\* callers that may be inside the resource operator at the same time
MaxClients == 2

VARIABLES
    \* ---- Part I: one aggregation call ----
    variant,        \* which method runs: "GetNodesDetail" or "GetBranchNodesDetail"
    pc,             \* position of the coordinating thread
    respNodes,      \* respNodes: the node list of the run (node identifiers)
    nodesDetails,   \* nodesDetails: the node-detail array, [ID, Steps] per entry
    idx,            \* the range loop's next position i
    wg,             \* sync.WaitGroup counter
    stepChan,       \* buffered channel of NodesStepsIndex values [Id, Steps]
    closed,         \* stepChan has been closed
    wpc,            \* position of the goroutine started for position i
    wSteps,         \* the goroutine's local Steps
    wReq,           \* the *http.Request the goroutine hands to the step listing:
                    \* 0 is the inbound req, i > 0 the clone made by goroutine i
    err,            \* the coordinating thread's local err
    ret,            \* what the call returned: [val, isNil, err]
    delivered,      \* positions in the order the range over stepChan received them
    \* ---- Part II: the resource store and the callers of the operator ----
    projects,       \* stored DevOpsProject objects
    pipelines,      \* stored Pipeline objects
    now,            \* the clock GetSyncNowTime reads
    ops,            \* operations invoked so far
    calls,          \* per caller: the call in progress (its position and locals)
    reply,          \* per caller: what its last finished call did and returned
    \* ---- the remote engine, as the operator's requests leave it ----
    engine,         \* [sent, body, creates, servers, method]: requests
                    \* forwarded and the body of the last input step, create
                    \* calls for SCM servers, the SCM servers per SCM kind, and
                    \* the HTTP method of the last stop, replay or listing
    \* ---- the credentials in the resource store ----
    secrets         \* stored Secret objects

aggVars == <<variant, pc, respNodes, nodesDetails, idx, wg, stepChan, closed,
             wpc, wSteps, wReq, err, ret, delivered>>

resVars == <<projects, pipelines, now, ops, calls, reply>>

engVars == <<engine>>

credVars == <<secrets>>

vars == <<aggVars, resVars, engVars, credVars>>

Variants == {"GetNodesDetail", "GetBranchNodesDetail"}

\* node lists the remote engine may return: n nodes, identifiers n down to 1, so
\* that a node's identifier is not its position
NodeList(n) == [i \in 1..n |-> n + 1 - i]
NodeLists == {NodeList(n) : n \in 0..MaxNodes}

\* the steps the remote engine lists for node nodeId when it has len of them
StepsFor(nodeId, len) == [j \in 1..len |-> [node |-> nodeId, step |-> j]]

NoReturn == [val |-> <<>>, isNil |-> TRUE, err |-> "none"]

\* json.Marshal(respNodes) then json.Unmarshal into []NodesDetail: the node's
\* fields are carried over by name, the new Steps field starts empty
ToNodesDetails(nodes) == [i \in 1..Len(nodes) |-> [ID |-> nodes[i], Steps |-> <<>>]]

\* a faulty append: every pair goes to the first entry, whatever its Id
AppendStepsFirst(details, x) ==
    [details EXCEPT ![1].Steps = details[1].Steps \o x.Steps]
\* nodesDetails[x.Id].Steps = append(nodesDetails[x.Id].Steps, x.Steps...)
AppendSteps(details, x) ==
    [details EXCEPT ![x.Id].Steps = details[x.Id].Steps \o x.Steps]

\* the request a goroutine passes on: req.Clone(...) in GetNodesDetail, req itself
\* in GetBranchNodesDetail
RequestOf(v, i) == IF v = "GetNodesDetail" THEN i ELSE 0

AggStart ==
    /\ variant \in Variants
    /\ pc = "start"
    /\ respNodes = <<>>
    /\ nodesDetails = <<>>
    /\ idx = 1
    /\ wg = 0
    /\ stepChan = <<>>
    /\ closed = FALSE
    /\ wpc = <<>>
    /\ wSteps = <<>>
    /\ wReq = <<>>
    /\ err = "nil"
    /\ ret = NoReturn
    /\ delivered = <<>>

(***************************************************************************)
(* Part II: the resource operator.  A stored project is                    *)
(* [name, generateName, workspace, syncStatus, syncTime,                   *)
(* pipelineSyncStatus, pipelineSyncTime]: workspace is the value of the    *)
(* workspace label, syncStatus and syncTime the two project sync           *)
(* annotations, pipelineSyncStatus and pipelineSyncTime the two            *)
(* pipeline-sync annotations; "" stands for an absent label or annotation. *)
(***************************************************************************)
Clients == 1..MaxClients
Workspaces == {"w1", "w2"}
GenerateNames == {"", "a", "b"}
StatusPending == "Pending"
StatusSynced == "Synced"

\* a Pipeline object: [name, ns, rv, syncStatus, syncTime, editMode, jfAnno,
\* hasPipeline, jenkinsfile]: rv is the resourceVersion, editMode and jfAnno the
\* Jenkinsfile edit-mode and Jenkinsfile-value annotations, hasPipeline says
\* Spec.Pipeline is not nil, jenkinsfile is Spec.Pipeline.Jenkinsfile, type is
\* Spec.Type
NoPipeline == [name |-> "", ns |-> 0, rv |-> 0, syncStatus |-> "", syncTime |-> 0,
               editMode |-> "", jfAnno |-> "", hasPipeline |-> FALSE,
               jenkinsfile |-> "", type |-> ""]

\* a call in progress: its position, and its arguments and locals (mode and
\* jenkinsfile are UpdateJenkinsfile's arguments)
Idle == [pc |-> "idle", seq |-> 0, workspace |-> "", generateName |-> "",
         syncStatus |-> "", syncTime |-> 0, pipeline |-> NoPipeline,
         mode |-> "", jenkinsfile |-> ""]

\* the text of a JSON object with the members id, parameters and abort; "absent"
\* says the member is not in the text
NoJSON == [id |-> "absent", parameters |-> "absent", abort |-> "absent"]

\* a request body: one that cannot be read, one that is not JSON, or the text
\* of a JSON object
NoBody == [kind |-> "none", json |-> NoJSON]

ScmIds == {"github", "bitbucket-server"}

\* an SCM server entry of the remote engine; apiUrl is a sequence of characters
NoServer == [id |-> 0, apiUrl |-> <<>>]

\* a text read as YAML: valid says it decodes into a map of sections of
\* string entries; layout is "marshalled" for the encoder's output with its
\* final line break, "trimmed" for that output without it, "other" for any
\* other layout; devops is the password entry of the devops section ("absent"
\* for a section without one, "none" for no section); other says the text has
\* another section
NoText == [valid |-> FALSE, layout |-> "other", devops |-> "none", other |-> FALSE]

\* a finished call: its arguments, its error and what it wrote or returned
\* (pipeline is the Pipeline object the store took, mode and jenkinsfile
\* UpdateJenkinsfile's arguments, limit and offset ListDevOpsProject's, items,
\* itemsNil and total the ListResult it returned: the names of the projects in
\* Items, whether Items is nil, and TotalItems; storeErr is the error the
\* store's List gave the call; body is the request body of an input-step
\* submission; scmId and apiUrl are CreateSCMServers' SCM kind and the ApiURL of
\* its request, server the entry it returned; method is the HTTP method of the
\* inbound request of a forwarding operation; filter is the type filter of a
\* ListPipelineObj query, "" when the query has none; secrets are the Secret
\* objects a credential operation returned)
NoReply == [seq |-> 0, op |-> "none", err |-> "nil", workspace |-> "",
            generateName |-> "", name |-> 0, syncStatus |-> "", syncTime |-> 0,
            at |-> 0, pipeline |-> NoPipeline, mode |-> "", jenkinsfile |-> "",
            limit |-> 0, offset |-> 0, items |-> <<>>, itemsNil |-> TRUE,
            total |-> 0, storeErr |-> "nil", body |-> NoBody, scmId |-> "",
            apiUrl |-> <<>>, server |-> NoServer, method |-> "", filter |-> "",
            secrets |-> <<>>, content |-> NoText, token |-> "",
            override |-> FALSE, result |-> NoText]

ResStart ==
    /\ projects = {}
    /\ pipelines = {}
    /\ now = 1
    /\ ops = 0
    /\ calls = [c \in Clients |-> Idle]
    /\ reply = [c \in Clients |-> NoReply]

\* a Secret object: [name, ns, type, masked, syncStatus, syncTime]: masked says
\* the sensitive fields of its data are redacted, syncStatus and syncTime are
\* the credential sync annotations
NoSecret == [name |-> "", ns |-> 0, type |-> "", masked |-> FALSE,
             syncStatus |-> "", syncTime |-> 0]

\* a store without secrets
CredStart == secrets = {}

\* a remote engine that has got no request and holds no SCM server
EngineStart ==
    engine = [sent |-> 0, body |-> NoJSON, creates |-> 0,
              servers |-> [k \in ScmIds |-> <<>>], method |-> ""]

InitAgg == AggStart /\ ResStart /\ EngineStart /\ CredStart

ProjectNames(ps) == {p.name : p \in ps}

\* the store names a created object generateName + a suffix not in use
NewName(ps) == CHOOSE n \in 1..(Cardinality(ps) + 1) : n \notin ProjectNames(ps)

\* a faulty scan: it compares generateName only, whatever the workspace label
isGenerateNameUniqueAnyWorkspace(ps, workspace, generateName) ==
    ~\E p \in ps : p.generateName = generateName

\* isGenerateNameUnique: lists every project and scans for one that carries the
\* workspace label with this value and the same generateName
isGenerateNameUnique(ps, workspace, generateName) ==
    ~\E p \in ps : p.workspace = workspace /\ p.generateName = generateName

\* a caller may invoke an operation when it is in none and the run has room
CanInvoke(c) == calls[c].pc = "idle" /\ ops < MaxOps

Finish(c, r) == reply' = [reply EXCEPT ![c] = r]

\* a faulty CreateDevOpsProject that runs the uniqueness scan before it looks
\* at the generateName
CreateDevOpsProject_ScanFirst(c, workspace, generateName) ==
    /\ CanInvoke(c)
    /\ ops' = ops + 1
    /\ IF ~isGenerateNameUnique(projects, workspace, generateName)
       THEN /\ Finish(c, [NoReply EXCEPT !.seq = ops + 1, !.op = "CreateDevOpsProject",
                          !.err = "Conflict", !.workspace = workspace,
                          !.generateName = generateName, !.at = now])
            /\ UNCHANGED <<calls, now>>
       ELSE IF generateName = ""
       THEN /\ Finish(c, [NoReply EXCEPT !.seq = ops + 1, !.op = "CreateDevOpsProject",
                          !.err = "Invalid", !.workspace = workspace,
                          !.generateName = generateName, !.at = now])
            /\ UNCHANGED <<calls, now>>
       ELSE /\ calls' = [calls EXCEPT ![c] =
                            [Idle EXCEPT !.pc = "create", !.seq = ops + 1,
                                         !.workspace = workspace,
                                         !.generateName = generateName,
                                         !.syncStatus = StatusPending,
                                         !.syncTime = now]]
            /\ now' = now + 1
            /\ UNCHANGED reply
    /\ UNCHANGED <<aggVars, credVars, engVars, projects, pipelines>>

\* CreateDevOpsProject up to the store's Create: the generateName check, the
\* uniqueness scan (one List), the metadata override and the two annotations
CreateDevOpsProject_Scan(c, workspace, generateName) ==
    /\ CanInvoke(c)
    /\ ops' = ops + 1
    /\ IF generateName = ""
       THEN /\ Finish(c, [NoReply EXCEPT !.seq = ops + 1, !.op = "CreateDevOpsProject",
                          !.err = "Invalid", !.workspace = workspace,
                          !.generateName = generateName, !.at = now])
            /\ UNCHANGED <<calls, now>>
       ELSE IF ~isGenerateNameUnique(projects, workspace, generateName)
       THEN /\ Finish(c, [NoReply EXCEPT !.seq = ops + 1, !.op = "CreateDevOpsProject",
                          !.err = "Conflict", !.workspace = workspace,
                          !.generateName = generateName, !.at = now])
            /\ UNCHANGED <<calls, now>>
       ELSE /\ calls' = [calls EXCEPT ![c] =
                            [Idle EXCEPT !.pc = "create", !.seq = ops + 1,
                                         !.workspace = workspace,
                                         !.generateName = generateName,
                                         !.syncStatus = StatusPending,
                                         !.syncTime = now]]
            /\ now' = now + 1
            /\ UNCHANGED reply
    /\ UNCHANGED <<aggVars, credVars, engVars, projects, pipelines>>

\* a guarded Create: the uniqueness scan is repeated in one step with the
\* store's Create, so a second project of the same workspace and generateName is
\* refused
CreateDevOpsProject_CreateGuarded(c) ==
    /\ calls[c].pc = "create"
    /\ LET name == NewName(projects)
           dup == ~isGenerateNameUnique(projects, calls[c].workspace, calls[c].generateName)
       IN  /\ projects' = IF dup THEN projects ELSE projects \cup
                    {[pipelineSyncStatus |-> "", pipelineSyncTime |-> 0,
                      name |-> name, generateName |-> calls[c].generateName,
                      workspace |-> calls[c].workspace,
                      syncStatus |-> calls[c].syncStatus,
                      syncTime |-> calls[c].syncTime]}
           /\ Finish(c, [NoReply EXCEPT !.seq = calls[c].seq, !.op = "CreateDevOpsProject",
                         !.err = IF dup THEN "Conflict" ELSE "nil",
                         !.workspace = calls[c].workspace,
                         !.generateName = calls[c].generateName, !.name = name,
                         !.syncStatus = calls[c].syncStatus,
                         !.syncTime = calls[c].syncTime, !.at = calls[c].syncTime])
    /\ calls' = [calls EXCEPT ![c] = Idle]
    /\ UNCHANGED <<aggVars, credVars, engVars, pipelines, now, ops>>

\* CreateDevOpsProject's last statement: the store creates the project under a
\* name of its own choosing
CreateDevOpsProject_Create(c) ==
    /\ calls[c].pc = "create"
    /\ LET name == NewName(projects)
       IN  /\ projects' = projects \cup
                    {[pipelineSyncStatus |-> "", pipelineSyncTime |-> 0,
                      name |-> name, generateName |-> calls[c].generateName,
                      workspace |-> calls[c].workspace,
                      syncStatus |-> calls[c].syncStatus,
                      syncTime |-> calls[c].syncTime]}
           /\ Finish(c, [NoReply EXCEPT !.seq = calls[c].seq, !.op = "CreateDevOpsProject",
                         !.workspace = calls[c].workspace,
                         !.generateName = calls[c].generateName, !.name = name,
                         !.syncStatus = calls[c].syncStatus,
                         !.syncTime = calls[c].syncTime, !.at = calls[c].syncTime])
    /\ calls' = [calls EXCEPT ![c] = Idle]
    /\ UNCHANGED <<aggVars, credVars, engVars, pipelines, now, ops>>

\* UpdateDevOpsProject: stamps the two annotations on the caller's object and
\* hands it to the store's Update; the workspace argument is not used.  The
\* caller's object is any project object: its name, generateName and workspace
\* label are the caller's (a caller that got the object first also sends the
\* stored resourceVersion, so the store's version check is not modelled here)
UpdateDevOpsProject(c, workspace, name, generateName, label) ==
    /\ CanInvoke(c)
    /\ ops' = ops + 1
    /\ now' = now + 1
    /\ IF name \in ProjectNames(projects)
       THEN /\ projects' = {p \in projects : p.name # name} \cup
                    {[pipelineSyncStatus |-> "", pipelineSyncTime |-> 0,
                      name |-> name, generateName |-> generateName, workspace |-> label,
                      syncStatus |-> StatusPending, syncTime |-> now]}
            /\ Finish(c, [NoReply EXCEPT !.seq = ops + 1, !.op = "UpdateDevOpsProject",
                          !.workspace = workspace, !.generateName = generateName,
                          !.name = name, !.syncStatus = StatusPending,
                          !.syncTime = now, !.at = now])
       ELSE /\ UNCHANGED projects
            /\ Finish(c, [NoReply EXCEPT !.seq = ops + 1, !.op = "UpdateDevOpsProject",
                          !.err = "NotFound", !.workspace = workspace,
                          !.generateName = generateName, !.name = name, !.at = now])
    /\ UNCHANGED <<aggVars, credVars, engVars, pipelines, calls>>

\* DeleteDevOpsProject: the store's Delete, nothing else
DeleteDevOpsProject(c, workspace, name) ==
    /\ CanInvoke(c)
    /\ ops' = ops + 1
    /\ projects' = {p \in projects : p.name # name}
    /\ Finish(c, [NoReply EXCEPT !.seq = ops + 1, !.op = "DeleteDevOpsProject",
                  !.err = IF name \in ProjectNames(projects) THEN "nil" ELSE "NotFound",
                  !.workspace = workspace, !.name = name, !.at = now])
    /\ UNCHANGED <<aggVars, credVars, engVars, pipelines, now, calls>>

\* the external reconciler has pushed a pending project to the remote engine
Reconcile(name) ==
    /\ \E p \in projects :
        /\ p.name = name
        /\ p.syncStatus = StatusPending
        /\ projects' = (projects \ {p}) \cup {[p EXCEPT !.syncStatus = StatusSynced]}
    /\ UNCHANGED <<aggVars, credVars, engVars, pipelines, now, ops, calls, reply>>

\* names a caller may put in a request: those stored, and one that is not
KnownNames == ProjectNames(projects) \cup {NewName(projects)}

ProjectStep(c) ==
    \/ \E w \in Workspaces, g \in GenerateNames : CreateDevOpsProject_Scan(c, w, g)
    \/ CreateDevOpsProject_Create(c)
    \/ \E w \in Workspaces, n \in KnownNames, g \in GenerateNames,
          l \in Workspaces \cup {""} : UpdateDevOpsProject(c, w, n, g, l)
    \/ \E w \in Workspaces, n \in KnownNames : DeleteDevOpsProject(c, w, n)

Init == AggStart /\ variant = "GetNodesDetail" /\ ResStart /\ EngineStart /\ CredStart

\* the resource operator's project operations, called one after the other
Next ==
    \/ ProjectStep(1)
    \/ \E n \in ProjectNames(projects) : Reconcile(n)

Spec == Init /\ [][Next]_vars

\* CreateDevOpsProject and DeleteDevOpsProject called by all callers concurrently
NextConc ==
    \E c \in Clients :
        \/ \E w \in Workspaces, g \in GenerateNames : CreateDevOpsProject_Scan(c, w, g)
        \/ CreateDevOpsProject_Create(c)
        \/ \E w \in Workspaces, n \in KnownNames : DeleteDevOpsProject(c, w, n)

SpecConc == Init /\ [][NextConc]_vars

(***************************************************************************)
(* Pipelines.  A project's AdminNamespace carries the project's name       *)
(* (devops.go:159-160), so a namespace is written as that name.            *)
(***************************************************************************)
PipelineNames == {"p1", "p2"}
Jenkinsfiles == {"j1", "j2"}
EditModes == {"raw", "json", "yaml"}
PipelineJenkinsfileEditModeJSON == "json"
PipelineJenkinsfileEditModeRaw == "raw"

\* the Pipeline objects a caller may send
PipelinePayloads ==
    {[NoPipeline EXCEPT !.name = n, !.syncStatus = st, !.hasPipeline = h,
                        !.jenkinsfile = IF h THEN j ELSE "",
                        !.type = IF h THEN "pipeline" ELSE "multi-branch-pipeline"] :
        n \in PipelineNames, st \in {"", StatusSynced}, h \in BOOLEAN,
        j \in Jenkinsfiles}

Stored(ns, name) == {q \in pipelines : q.ns = ns /\ q.name = name}

PipelineReply(c, seq, op, e, obj) ==
    Finish(c, [NoReply EXCEPT !.seq = seq, !.op = op, !.err = e,
                              !.syncStatus = obj.syncStatus,
                              !.syncTime = obj.syncTime, !.at = now,
                              !.pipeline = obj, !.mode = calls[c].mode,
                              !.jenkinsfile = calls[c].jenkinsfile])

\* CreatePipelineObj: gets the project, sets the two pipeline-sync annotations on
\* the project object it holds (which is not written back), and has the store
\* create the caller's pipeline in the project's AdminNamespace
CreatePipelineObj(c, projectName, pipeline) ==
    /\ CanInvoke(c)
    /\ ops' = ops + 1
    /\ IF projectName \notin ProjectNames(projects)
       THEN /\ PipelineReply(c, ops + 1, "CreatePipelineObj", "NotFound", NoPipeline)
            /\ UNCHANGED <<pipelines, now>>
       ELSE /\ now' = now + 1
            /\ IF Stored(projectName, pipeline.name) # {}
               THEN /\ PipelineReply(c, ops + 1, "CreatePipelineObj", "AlreadyExists",
                                     NoPipeline)
                    /\ UNCHANGED pipelines
               ELSE LET obj == [pipeline EXCEPT !.ns = projectName, !.rv = 1]
                    IN  /\ pipelines' = pipelines \cup {obj}
                        /\ PipelineReply(c, ops + 1, "CreatePipelineObj", "nil", obj)
    /\ UNCHANGED <<aggVars, credVars, engVars, projects, calls>>

\* DeletePipelineObj: gets the project, then the store's Delete
DeletePipelineObj(c, projectName, pipelineName) ==
    /\ CanInvoke(c)
    /\ ops' = ops + 1
    /\ IF projectName \notin ProjectNames(projects)
          \/ Stored(projectName, pipelineName) = {}
       THEN /\ PipelineReply(c, ops + 1, "DeletePipelineObj", "NotFound", NoPipeline)
            /\ UNCHANGED pipelines
       ELSE /\ pipelines' = pipelines \ Stored(projectName, pipelineName)
            /\ PipelineReply(c, ops + 1, "DeletePipelineObj", "nil", NoPipeline)
    /\ UNCHANGED <<aggVars, credVars, engVars, projects, now, calls>>

\* UpdatePipelineObj up to the store's Update: gets the project and the latest
\* stored pipeline, takes its resourceVersion and, when both objects have a
\* Spec.Pipeline, its Jenkinsfile
UpdatePipelineObj_Get(c, projectName, pipeline) ==
    /\ CanInvoke(c)
    /\ ops' = ops + 1
    /\ IF projectName \notin ProjectNames(projects)
       THEN /\ PipelineReply(c, ops + 1, "UpdatePipelineObj", "NotFound", NoPipeline)
            /\ UNCHANGED calls
       ELSE IF Stored(projectName, pipeline.name) = {}
       THEN /\ Finish(c, [NoReply EXCEPT !.seq = ops + 1, !.op = "UpdatePipelineObj",
                                         !.err = "cannot found pipeline",
                                         !.storeErr = "NotFound", !.at = now])
            /\ UNCHANGED calls
       ELSE LET latestPipe == CHOOSE q \in Stored(projectName, pipeline.name) : TRUE
                jf == IF pipeline.hasPipeline /\ latestPipe.hasPipeline
                      THEN latestPipe.jenkinsfile
                      ELSE pipeline.jenkinsfile
            IN  /\ calls' = [calls EXCEPT ![c] =
                        [Idle EXCEPT !.pc = "updatePipeline", !.seq = ops + 1,
                                     !.pipeline = [pipeline EXCEPT
                                                    !.ns = projectName,
                                                    !.rv = latestPipe.rv,
                                                    !.jenkinsfile = jf]]]
                /\ UNCHANGED reply
    /\ UNCHANGED <<aggVars, credVars, engVars, projects, pipelines, now>>

\* the store's Update: refuses an object that is gone or whose resourceVersion
\* is not the stored one, else replaces the stored object
StoreUpdatePipeline(c, op) ==
    LET obj == calls[c].pipeline
        cur == Stored(obj.ns, obj.name)
    IN  /\ IF cur = {}
           THEN /\ PipelineReply(c, calls[c].seq, op, "NotFound", NoPipeline)
                /\ UNCHANGED pipelines
           ELSE IF \E q \in cur : q.rv # obj.rv
           THEN /\ PipelineReply(c, calls[c].seq, op, "Conflict", NoPipeline)
                /\ UNCHANGED pipelines
           ELSE LET new == [obj EXCEPT !.rv = obj.rv + 1]
                IN  /\ pipelines' = (pipelines \ cur) \cup {new}
                    /\ PipelineReply(c, calls[c].seq, op, "nil", new)
        /\ calls' = [calls EXCEPT ![c] = Idle]
        /\ UNCHANGED <<aggVars, credVars, engVars, projects, now, ops>>

\* UpdatePipelineObj's last statement
UpdatePipelineObj_Update(c) ==
    /\ calls[c].pc = "updatePipeline"
    /\ StoreUpdatePipeline(c, "UpdatePipelineObj")

\* what an UpdateJenkinsfile call that ends before the store's Update returns
JenkinsfileReply(c, e, mode, jenkinsfile) ==
    Finish(c, [NoReply EXCEPT !.seq = ops + 1, !.op = "UpdateJenkinsfile",
                              !.err = e, !.at = now, !.mode = mode,
                              !.jenkinsfile = jenkinsfile])

\* the edits UpdateJenkinsfile makes to the pipeline it fetched: the edit-mode
\* annotation and, by mode, the Jenkinsfile-value annotation or (when
\* Spec.Pipeline is there) the spec's Jenkinsfile
EditJenkinsfile(pipeline, mode, jenkinsfile) ==
    IF mode = PipelineJenkinsfileEditModeJSON
    THEN [pipeline EXCEPT !.editMode = mode, !.jfAnno = jenkinsfile]
    ELSE IF mode = PipelineJenkinsfileEditModeRaw /\ pipeline.hasPipeline
    THEN [pipeline EXCEPT !.editMode = mode, !.jenkinsfile = jenkinsfile]
    ELSE [pipeline EXCEPT !.editMode = mode]

\* a faulty UpdateJenkinsfile whose switch has no default branch: a mode it
\* does not know still reaches the store's Update
UpdateJenkinsfile_GetAnyMode(c, projectName, pipelineName, mode, jenkinsfile) ==
    /\ CanInvoke(c)
    /\ ops' = ops + 1
    /\ IF Stored(projectName, pipelineName) = {}
       THEN /\ JenkinsfileReply(c, "NotFound", mode, jenkinsfile)
            /\ UNCHANGED calls
       ELSE LET pipeline == CHOOSE q \in Stored(projectName, pipelineName) : TRUE
            IN  /\ calls' = [calls EXCEPT ![c] =
                        [Idle EXCEPT !.pc = "updateJenkinsfile", !.seq = ops + 1,
                                     !.pipeline = EditJenkinsfile(pipeline, mode,
                                                                  jenkinsfile),
                                     !.mode = mode, !.jenkinsfile = jenkinsfile]]
                /\ UNCHANGED reply
    /\ UNCHANGED <<aggVars, credVars, engVars, projects, pipelines, now>>

\* UpdateJenkinsfile up to the store's Update: gets the pipeline from the
\* namespace named as the project, edits the copy it holds; a mode other than
\* raw and json is an error and the call returns before the store's Update
UpdateJenkinsfile_Get(c, projectName, pipelineName, mode, jenkinsfile) ==
    /\ CanInvoke(c)
    /\ ops' = ops + 1
    /\ IF Stored(projectName, pipelineName) = {}
       THEN /\ JenkinsfileReply(c, "NotFound", mode, jenkinsfile)
            /\ UNCHANGED calls
       ELSE IF mode \notin {PipelineJenkinsfileEditModeJSON, PipelineJenkinsfileEditModeRaw}
       THEN /\ JenkinsfileReply(c, "InvalidEditMode", mode, jenkinsfile)
            /\ UNCHANGED calls
       ELSE LET pipeline == CHOOSE q \in Stored(projectName, pipelineName) : TRUE
            IN  /\ calls' = [calls EXCEPT ![c] =
                        [Idle EXCEPT !.pc = "updateJenkinsfile", !.seq = ops + 1,
                                     !.pipeline = EditJenkinsfile(pipeline, mode,
                                                                  jenkinsfile),
                                     !.mode = mode, !.jenkinsfile = jenkinsfile]]
                /\ UNCHANGED reply
    /\ UNCHANGED <<aggVars, credVars, engVars, projects, pipelines, now>>

\* UpdateJenkinsfile's last statement
UpdateJenkinsfile_Update(c) ==
    /\ calls[c].pc = "updateJenkinsfile"
    /\ StoreUpdatePipeline(c, "UpdateJenkinsfile")

\* project names a caller may put in a pipeline request
ProjectArgs == ProjectNames(projects) \cup {NewName(projects)}

PipelineStep(c) ==
    \/ \E n \in ProjectArgs, pl \in PipelinePayloads : CreatePipelineObj(c, n, pl)
    \/ \E n \in ProjectArgs, pn \in PipelineNames : DeletePipelineObj(c, n, pn)
    \/ \E n \in ProjectArgs, pl \in PipelinePayloads : UpdatePipelineObj_Get(c, n, pl)
    \/ UpdatePipelineObj_Update(c)
    \/ \E n \in ProjectArgs, pn \in PipelineNames, m \in EditModes, j \in Jenkinsfiles :
            UpdateJenkinsfile_Get(c, n, pn, m, j)
    \/ UpdateJenkinsfile_Update(c)

\* a store that holds one project, created through CreateDevOpsProject and
\* reconciled since
InitPipeline ==
    /\ AggStart
    /\ EngineStart /\ CredStart
    /\ variant = "GetNodesDetail"
    /\ projects = {[pipelineSyncStatus |-> "", pipelineSyncTime |-> 0,
                    name |-> 1, generateName |-> "a", workspace |-> "w1",
                    syncStatus |-> StatusSynced, syncTime |-> 1]}
    /\ pipelines = {}
    /\ now = 2
    /\ ops = 0
    /\ calls = [c \in Clients |-> Idle]
    /\ reply = [c \in Clients |-> NoReply]

\* the pipeline operations, called one after the other
NextPipeline == PipelineStep(1)

SpecPipeline == InitPipeline /\ [][NextPipeline]_vars

(***************************************************************************)
(* Part I: the coordinating thread.                                        *)
(***************************************************************************)
\* the node listing succeeds with the list nodes; the json round trip (which
\* does not fail on a node list) fills nodesDetails
ListNodesOk(nodes) ==
    /\ pc = "start"
    /\ respNodes' = nodes
    /\ nodesDetails' = ToNodesDetails(nodes)
    /\ wpc' = [i \in 1..Len(nodes) |-> "none"]
    /\ wSteps' = [i \in 1..Len(nodes) |-> <<>>]
    /\ wReq' = [i \in 1..Len(nodes) |-> 0]
    /\ idx' = 1
    /\ pc' = "loop"
    /\ UNCHANGED <<resVars, credVars, engVars, variant, wg, stepChan, closed, err, ret, delivered>>

\* a faulty error path: the error of the node listing is kept but the call goes
\* on to the wait instead of returning
ListNodesFailIgnored ==
    /\ pc = "start"
    /\ err' = "UpstreamError"
    /\ pc' = "wait"
    /\ UNCHANGED <<resVars, credVars, engVars, variant, respNodes, nodesDetails, idx, wg, stepChan, closed,
                   wpc, wSteps, wReq, ret, delivered>>

\* the node listing fails: return nil, err
ListNodesFail ==
    /\ pc = "start"
    /\ err' = "UpstreamError"
    /\ ret' = [val |-> <<>>, isNil |-> TRUE, err |-> "UpstreamError"]
    /\ pc' = "done"
    /\ UNCHANGED <<resVars, credVars, engVars, variant, respNodes, nodesDetails, idx, wg, stepChan, closed,
                   wpc, wSteps, wReq, delivered>>

\* one iteration of the range loop: wg.Add(1); go func(v.ID, i)
Spawn ==
    /\ pc = "loop"
    /\ idx <= Len(respNodes)
    /\ wg' = wg + 1
    /\ wpc' = [wpc EXCEPT ![idx] = "call"]
    /\ wReq' = [wReq EXCEPT ![idx] = RequestOf(variant, idx)]
    /\ idx' = idx + 1
    /\ UNCHANGED <<resVars, credVars, engVars, variant, pc, respNodes, nodesDetails, stepChan, closed,
                   wSteps, err, ret, delivered>>

LoopEnd ==
    /\ pc = "loop"
    /\ idx > Len(respNodes)
    /\ pc' = "wait"
    /\ UNCHANGED <<resVars, credVars, engVars, variant, respNodes, nodesDetails, idx, wg, stepChan, closed,
                   wpc, wSteps, wReq, err, ret, delivered>>

\* a faulty wait that returns whatever the counter
WaitNoBarrier ==
    /\ pc = "wait"
    /\ pc' = "close"
    /\ UNCHANGED <<resVars, credVars, engVars, variant, respNodes, nodesDetails, idx, wg, stepChan, closed,
                   wpc, wSteps, wReq, err, ret, delivered>>

\* wg.Wait() returns once the counter is zero
Wait ==
    /\ pc = "wait"
    /\ wg = 0
    /\ pc' = "close"
    /\ UNCHANGED <<resVars, credVars, engVars, variant, respNodes, nodesDetails, idx, wg, stepChan, closed,
                   wpc, wSteps, wReq, err, ret, delivered>>

\* close(stepChan)
Close ==
    /\ pc = "close"
    /\ closed' = TRUE
    /\ pc' = "drain"
    /\ UNCHANGED <<resVars, credVars, engVars, variant, respNodes, nodesDetails, idx, wg, stepChan,
                   wpc, wSteps, wReq, err, ret, delivered>>

\* one iteration of: for oneNodeSteps := range stepChan
Drain ==
    /\ pc = "drain"
    /\ stepChan # <<>>
    /\ nodesDetails' = AppendSteps(nodesDetails, Head(stepChan))
    /\ delivered' = Append(delivered, Head(stepChan).Id)
    /\ stepChan' = Tail(stepChan)
    /\ UNCHANGED <<resVars, credVars, engVars, variant, pc, respNodes, idx, wg, closed, wpc, wSteps, wReq,
                   err, ret>>

\* the range ends on the closed, empty channel: return nodesDetails, err
Return ==
    /\ pc = "drain"
    /\ stepChan = <<>>
    /\ closed
    /\ ret' = [val |-> nodesDetails, isNil |-> FALSE, err |-> err]
    /\ pc' = "done"
    /\ UNCHANGED <<resVars, credVars, engVars, variant, respNodes, nodesDetails, idx, wg, stepChan, closed,
                   wpc, wSteps, wReq, err, delivered>>

(***************************************************************************)
(* The goroutine started for position i.                                   *)
(***************************************************************************)
\* the step listing for the node's identifier succeeds with len steps
WorkerFetchOk(i, len) ==
    /\ wpc[i] = "call"
    /\ wSteps' = [wSteps EXCEPT ![i] = StepsFor(respNodes[i], len)]
    /\ wpc' = [wpc EXCEPT ![i] = "send"]
    /\ UNCHANGED <<resVars, credVars, engVars, variant, pc, respNodes, nodesDetails, idx, wg, stepChan,
                   closed, wReq, err, ret, delivered>>

\* the step listing fails: klog.Error(err); return  (wg.Done() is not reached)
WorkerFetchFail(i) ==
    /\ wpc[i] = "call"
    /\ wpc' = [wpc EXCEPT ![i] = "failed"]
    /\ UNCHANGED <<resVars, credVars, engVars, variant, pc, respNodes, nodesDetails, idx, wg, stepChan,
                   closed, wSteps, wReq, err, ret, delivered>>

\* stepChan <- &NodesStepsIndex{Id: index, Steps: Steps}: blocks while the buffer
\* is full, panics on a closed channel
WorkerSend(i) ==
    /\ wpc[i] = "send"
    /\ IF closed
       THEN /\ wpc' = [wpc EXCEPT ![i] = "panic"]
            /\ UNCHANGED stepChan
       ELSE /\ Len(stepChan) < channelMaxCapacity
            /\ stepChan' = Append(stepChan, [Id |-> i, Steps |-> wSteps[i]])
            /\ wpc' = [wpc EXCEPT ![i] = "sent"]
    /\ UNCHANGED <<resVars, credVars, engVars, variant, pc, respNodes, nodesDetails, idx, wg, closed,
                   wSteps, wReq, err, ret, delivered>>

\* wg.Done()
WorkerDone(i) ==
    /\ wpc[i] = "sent"
    /\ wg' = wg - 1
    /\ wpc' = [wpc EXCEPT ![i] = "done"]
    /\ UNCHANGED <<resVars, credVars, engVars, variant, pc, respNodes, nodesDetails, idx, stepChan, closed,
                   wSteps, wReq, err, ret, delivered>>

Workers == DOMAIN wpc

CoordStep ==
    \/ ListNodesFail
    \/ Spawn
    \/ LoopEnd
    \/ Wait
    \/ Close
    \/ Drain
    \/ Return

NextAgg ==
    \/ \E nodes \in NodeLists : ListNodesOk(nodes)
    \/ CoordStep
    \/ \E i \in Workers :
        \/ \E len \in 0..MaxSteps : WorkerFetchOk(i, len)
        \/ WorkerFetchFail(i)
        \/ WorkerSend(i)
        \/ WorkerDone(i)

SpecAgg == InitAgg /\ [][NextAgg]_vars

(***************************************************************************)
(* SpecLarge: GetNodesDetail on a run of channelMaxCapacity or             *)
(* channelMaxCapacity + 1 nodes whose step listings all succeed, under one *)
(* schedule the Go runtime may produce: the coordinating thread runs       *)
(* whenever it can, and while it waits the runnable goroutine of lowest    *)
(* position runs.                                                          *)
(***************************************************************************)
LargeRuns == {channelMaxCapacity, channelMaxCapacity + 1}

Runnable(j) ==
    \/ wpc[j] \in {"call", "sent"}
    \/ wpc[j] = "send" /\ (closed \/ Len(stepChan) < channelMaxCapacity)

FirstRunnable(i) == Runnable(i) /\ \A j \in 1..(i - 1) : ~Runnable(j)

NextLarge ==
    \/ \E n \in LargeRuns : ListNodesOk(NodeList(n))
    \/ Spawn
    \/ LoopEnd
    \/ Wait
    \/ Close
    \/ Drain
    \/ Return
    \/ \E i \in Workers :
        /\ pc = "wait"
        /\ FirstRunnable(i)
        /\ \/ WorkerFetchOk(i, 1)
           \/ WorkerSend(i)
           \/ WorkerDone(i)

InitLarge == AggStart /\ variant = "GetNodesDetail" /\ ResStart /\ EngineStart /\ CredStart

SpecLarge == InitLarge /\ [][NextLarge]_vars

(***************************************************************************)
(* Claims about the run detail aggregator.                                 *)
(***************************************************************************)
Returned == pc = "done"

\* mutable objects goroutine i writes, or hands to a callee that writes them
WorkerMutable(i) == {<<"stepChan", 0>>, <<"wg", 0>>, <<"req", wReq[i]>>}

Started == {i \in Workers : wpc[i] # "none"}

\* C1: when GetNodesDetail returns a result, it has one entry per node of the
\* listed run, entry i carries node i's identifier, and its steps are exactly
\* the steps goroutine i fetched for that identifier, each once, whatever the
\* order in which the pairs came through the channel.
C1_EntriesFollowNodeOrder ==
    (variant = "GetNodesDetail" /\ Returned /\ ~ret.isNil) =>
        /\ Len(ret.val) = Len(respNodes)
        /\ \A i \in 1..Len(respNodes) :
            /\ ret.val[i].ID = respNodes[i]
            /\ ret.val[i].Steps = wSteps[i]
            /\ \A k \in 1..Len(ret.val[i].Steps) :
                ret.val[i].Steps[k] = [node |-> respNodes[i], step |-> k]

\* C1 witness: a returned call of two or more nodes whose pairs were received
\* against the node order, with different, non-empty step lists
C1_Witness ==
    /\ variant = "GetNodesDetail"
    /\ Returned
    /\ Len(respNodes) >= 2
    /\ Len(delivered) >= 2
    /\ delivered[1] > delivered[2]
    /\ Len(ret.val[1].Steps) = 1
    /\ Len(ret.val[2].Steps) = 2

\* C2 as claimed: once the step listing of some node has failed, the call still
\* comes to its return (it has returned, or some thread can take a step).
C2_ReturnsDespiteFailedStepListing ==
    (\E k \in Workers : wpc[k] = "failed") => (Returned \/ ENABLED NextAgg)

\* C3 as claimed: when no step listing fails the call comes to its return for
\* every number of nodes: no state is reached where nothing can run before the
\* return.
C3_ReturnsWhenAllStepListingsSucceed ==
    (\A k \in Workers : wpc[k] # "failed") => (Returned \/ ENABLED NextAgg)

\* C4 as claimed: in both variants every step-listing call works on its own
\* copy of the request: never the inbound request, never the request of
\* another call in progress.
C4_EveryCallOwnsItsRequest ==
    \A i \in Started :
        /\ wReq[i] # 0
        /\ \A j \in Started :
            (i # j /\ wpc[i] = "call" /\ wpc[j] = "call") => wReq[i] # wReq[j]

\* C5 as claimed: the node-detail array is written only by the coordinating
\* thread after all goroutines have finished and the channel is closed, and two
\* goroutines share no mutable object but the channel and the wait-group.
C5_ArrayAfterCloseAndNothingElseShared ==
    /\ (\E i \in 1..Len(nodesDetails) : nodesDetails[i].Steps # <<>>) =>
            (closed /\ wg = 0 /\ pc \in {"drain", "done"})
    /\ \A i \in Started : \A j \in Started :
            i # j => (WorkerMutable(i) \cap WorkerMutable(j))
                        \subseteq {<<"stepChan", 0>>, <<"wg", 0>>}

\* C6: a failed node listing ends the call at once: the error is returned with
\* no result, no goroutine was started, no step listing issued, nothing sent.
C6_NodeListingFailureReturnsAtOnce ==
    (err = "UpstreamError") =>
        /\ Returned
        /\ ret.isNil
        /\ ret.err = "UpstreamError"
        /\ Started = {}
        /\ wg = 0
        /\ stepChan = <<>>
        /\ ~closed

\* C6 witness: a call whose node listing failed
C6_Witness == Returned /\ err = "UpstreamError" /\ ret.err = "UpstreamError"

(***************************************************************************)
(* Claims about the resource operator.                                     *)
(***************************************************************************)
\* a step in which caller c's call of op returns
Returns(c, op) == reply'[c].seq # reply[c].seq /\ reply'[c].op = op

SameDisplayName(p, q) ==
    /\ p.name # q.name
    /\ p.workspace = q.workspace
    /\ p.generateName = q.generateName

\* C7: called one after the other, a CreateDevOpsProject with a generateName
\* that a stored project of the same workspace already has fails with a
\* conflict and creates nothing; otherwise (no such project, or only in another
\* workspace) it succeeds and stores exactly one new project of that workspace
\* and generateName.
C7_SecondCreateConflictsInSameWorkspaceOnly ==
    [][\A c \in Clients :
        (Returns(c, "CreateDevOpsProject") /\ reply'[c].generateName # "") =>
            IF \E p \in projects : /\ p.workspace = reply'[c].workspace
                                   /\ p.generateName = reply'[c].generateName
            THEN /\ reply'[c].err = "Conflict"
                 /\ projects' = projects
            ELSE /\ reply'[c].err = "nil"
                 /\ \E q \in projects' \ projects :
                        /\ projects' = projects \cup {q}
                        /\ q.workspace = reply'[c].workspace
                        /\ q.generateName = reply'[c].generateName]_vars

\* C7 witness: two creates of one generateName in two workspaces have both
\* succeeded, and a further create in one of these workspaces got the conflict
C7_Witness ==
    /\ reply[1].op = "CreateDevOpsProject"
    /\ reply[1].err = "Conflict"
    /\ \E p \in projects, q \in projects :
        /\ p.generateName = reply[1].generateName
        /\ q.generateName = reply[1].generateName
        /\ p.workspace = reply[1].workspace
        /\ q.workspace # reply[1].workspace
    /\ Cardinality(projects) = 2

\* C8 as claimed: with the operations called one after the other, no two stored
\* projects with the same workspace label have the same generateName.
C8_GenerateNameUniqueInWorkspace ==
    \A p \in projects, q \in projects :
        (p.workspace # "" /\ SameDisplayName(p, q)) => FALSE

\* C9: the uniqueness scan is not repeated when the store creates: a call that
\* has passed the scan stores its project and succeeds whatever the other
\* callers have stored in between.
C9_CreateAfterScanAlwaysStores ==
    [][\A c \in Clients :
        (calls[c].pc = "create" /\ calls'[c].pc = "idle") =>
            /\ reply'[c].err = "nil"
            /\ \E q \in projects' \ projects :
                /\ projects' = projects \cup {q}
                /\ q.workspace = calls[c].workspace
                /\ q.generateName = calls[c].generateName]_vars

\* C9 witness: two concurrent creates of one workspace and generateName have both
\* succeeded and the two projects are stored
C9_Witness ==
    /\ reply[1].op = "CreateDevOpsProject" /\ reply[1].err = "nil"
    /\ reply[2].op = "CreateDevOpsProject" /\ reply[2].err = "nil"
    /\ reply[1].workspace = reply[2].workspace
    /\ reply[1].generateName = reply[2].generateName
    /\ \E p \in projects, q \in projects :
        /\ SameDisplayName(p, q)
        /\ p.name = reply[1].name
        /\ q.name = reply[2].name

MutatingOps == {"CreateDevOpsProject", "UpdateDevOpsProject", "CreatePipelineObj",
                "UpdatePipelineObj", "UpdateJenkinsfile", "CreateCredentialObj",
                "UpdateCredentialObj"}

\* C10 as claimed: the object a successful mutating operation wrote to the store
\* carries syncStatus Pending and the syncTime that operation stamped.
C10_MutationsStampPending ==
    \A c \in Clients :
        (reply[c].op \in MutatingOps /\ reply[c].err = "nil") =>
            /\ reply[c].syncStatus = StatusPending
            /\ reply[c].syncTime = reply[c].at

(***************************************************************************)
(* Claims about the pipeline operations (SpecPipeline).                    *)
(***************************************************************************)
\* what a reader of the stored pipeline finds as its Jenkinsfile
SpecJenkinsfile(q) == IF q.hasPipeline THEN q.jenkinsfile ELSE ""

\* C11 as claimed: a successful UpdatePipelineObj leaves the Jenkinsfile of
\* every stored pipeline as it was, whatever the payload carries and whether
\* or not the payload or the stored pipeline has a Spec.Pipeline section.
C11_UpdatePipelineObjKeepsJenkinsfile ==
    [][\A c \in Clients :
        (Returns(c, "UpdatePipelineObj") /\ reply'[c].err = "nil") =>
            \A q \in pipelines : \E r \in Stored(q.ns, q.name)' :
                SpecJenkinsfile(r) = SpecJenkinsfile(q)]_vars

\* the stored pipeline a finished UpdateJenkinsfile call of c was for, before
\* the call's write and after it
Target(c) == CHOOSE q \in Stored(calls[c].pipeline.ns, calls[c].pipeline.name) : TRUE
Written(c) == reply'[c].pipeline

\* a step in which the store takes the write of UpdateJenkinsfile call c
JenkinsfileWritten(c) ==
    /\ calls[c].pc = "updateJenkinsfile"
    /\ Returns(c, "UpdateJenkinsfile")
    /\ reply'[c].err = "nil"

\* C12 as claimed: a successful UpdateJenkinsfile with mode json sets the
\* Jenkinsfile-value annotation to the content and leaves the spec's Jenkinsfile
\* as it was; with mode raw it sets the spec's Jenkinsfile to the content and
\* leaves the Jenkinsfile-value annotation as it was; in both cases the
\* edit-mode annotation becomes the mode.
C12_UpdateJenkinsfileWritesOneLocation ==
    [][\A c \in Clients : JenkinsfileWritten(c) =>
        /\ Written(c) \in pipelines'
        /\ Written(c).editMode = calls[c].mode
        /\ calls[c].mode = PipelineJenkinsfileEditModeJSON =>
            /\ Written(c).jfAnno = calls[c].jenkinsfile
            /\ SpecJenkinsfile(Written(c)) = SpecJenkinsfile(Target(c))
        /\ calls[c].mode = PipelineJenkinsfileEditModeRaw =>
            /\ SpecJenkinsfile(Written(c)) = calls[c].jenkinsfile
            /\ Written(c).jfAnno = Target(c).jfAnno]_vars

\* C13: an UpdateJenkinsfile whose mode is neither raw nor json returns an
\* error and the store is as it was: no pipeline's spec Jenkinsfile,
\* Jenkinsfile-value annotation or edit-mode annotation has changed.
C13_UnknownModeIsAnErrorAndWritesNothing ==
    [][\A c \in Clients :
        (/\ Returns(c, "UpdateJenkinsfile")
         /\ reply'[c].mode \notin {PipelineJenkinsfileEditModeRaw,
                                   PipelineJenkinsfileEditModeJSON}) =>
            /\ reply'[c].err # "nil"
            /\ pipelines' = pipelines]_vars

\* C13 witness: an UpdateJenkinsfile with mode yaml for a stored pipeline, which
\* an earlier UpdateJenkinsfile had written, has returned the mode error
C13_Witness ==
    /\ reply[1].op = "UpdateJenkinsfile"
    /\ reply[1].err = "InvalidEditMode"
    /\ reply[1].mode = "yaml"
    /\ \E q \in pipelines : q.editMode = PipelineJenkinsfileEditModeJSON
                            /\ q.jfAnno = "j2"

\* C14 as claimed: while the last finished call is a successful
\* UpdateJenkinsfile, the pipeline it was for holds the content at the place
\* its mode names: the Jenkinsfile-value annotation for json, the spec's
\* Jenkinsfile for raw, also when the pipeline's Spec.Pipeline was absent.
C14_ContentReadsBackWhereTheModeSays ==
    \A c \in Clients :
        (reply[c].op = "UpdateJenkinsfile" /\ reply[c].err = "nil") =>
            \A q \in Stored(reply[c].pipeline.ns, reply[c].pipeline.name) :
                /\ reply[c].mode = PipelineJenkinsfileEditModeJSON =>
                        q.jfAnno = reply[c].jenkinsfile
                /\ reply[c].mode = PipelineJenkinsfileEditModeRaw =>
                        q.hasPipeline /\ q.jenkinsfile = reply[c].jenkinsfile

(***************************************************************************)
(* ListDevOpsProject (devops.go:261-280): one page of the stored projects. *)
(***************************************************************************)
RECURSIVE ListOrder(_)
\* the store's List: the stored projects in name order
ListOrder(ps) ==
    IF ps = {} THEN <<>>
    ELSE LET first == CHOOSE p \in ps : \A q \in ps : p.name <= q.name
         IN  <<first>> \o ListOrder(ps \ {first})

\* the limit after `if limit == -1 || limit+offset > len(result)`
ClampLimit(len, limit, offset) ==
    IF limit = -1 \/ limit + offset > len THEN len - offset ELSE limit

\* the slice expression result[low : high] panics unless 0 <= low <= high and
\* high is within the capacity (the clamp keeps high within the length)
SlicePanics(len, low, high) == low < 0 \/ high < low \/ high > len

\* a faulty page that starts at position 0 whatever the offset
PageFromStart(result, limit, offset) ==
    LET high == ClampLimit(Len(result), limit, offset)
    IN  [i \in 1..high |-> result[i].name]

\* the names in result[offset : offset+limit], for a slice that does not panic
Page(result, limit, offset) ==
    LET high == offset + ClampLimit(Len(result), limit, offset)
    IN  [i \in 1..(high - offset) |-> result[offset + i].name]

Limits == -1..(MaxProjects + 1)
Offsets == 0..(MaxProjects + 1)

\* ListDevOpsProject: lists every stored project (the workspace argument is
\* not used), and returns the page; a failed List of the store is returned as
\* an empty ListResult with a nil error
ListDevOpsProject(c, workspace, limit, offset, listFails) ==
    /\ CanInvoke(c)
    /\ ops' = ops + 1
    /\ LET result == ListOrder(projects)
           high == offset + ClampLimit(Len(result), limit, offset)
           r == [NoReply EXCEPT !.seq = ops + 1, !.op = "ListDevOpsProject",
                                !.workspace = workspace, !.limit = limit,
                                !.offset = offset, !.at = now]
       IN  IF listFails
           THEN Finish(c, [r EXCEPT !.storeErr = "InternalError"])
           ELSE IF SlicePanics(Len(result), offset, high)
           THEN Finish(c, [r EXCEPT !.err = "panic"])
           ELSE Finish(c, [r EXCEPT !.items = Page(result, limit, offset),
                                    !.itemsNil = FALSE,
                                    !.total = Len(result)])
    /\ UNCHANGED <<aggVars, credVars, engVars, projects, pipelines, now, calls>>

\* a store of k projects, each created through CreateDevOpsProject and
\* reconciled since
StoreOf(k) ==
    {[pipelineSyncStatus |-> "", pipelineSyncTime |-> 0,
      name |-> i, generateName |-> IF i % 2 = 1 THEN "a" ELSE "b",
      workspace |-> IF i <= 2 THEN "w1" ELSE "w2",
      syncStatus |-> StatusSynced, syncTime |-> i] : i \in 1..k}

InitList ==
    /\ AggStart
    /\ EngineStart /\ CredStart
    /\ variant = "GetNodesDetail"
    /\ \E k \in 0..MaxProjects : projects = StoreOf(k) /\ now = k + 1
    /\ pipelines = {}
    /\ ops = 0
    /\ calls = [c \in Clients |-> Idle]
    /\ reply = [c \in Clients |-> NoReply]

\* listings, and deletions between them
NextList ==
    \/ \E w \in Workspaces, l \in Limits, o \in Offsets, f \in BOOLEAN :
            ListDevOpsProject(1, w, l, o, f)
    \/ \E w \in Workspaces, n \in ProjectNames(projects) : DeleteDevOpsProject(1, w, n)

SpecList == InitList /\ [][NextList]_vars

\* the last finished call of caller c listed the store as it is now
Listed(c) == reply[c].op = "ListDevOpsProject" /\ reply[c].storeErr = "nil"

\* C15 as claimed: a ListDevOpsProject whose offset is at or beyond the number
\* of stored projects does not panic, whatever the limit, and returns an
\* item list that is empty and not nil.
C15_OffsetAtOrBeyondCountGivesEmptyPage ==
    \A c \in Clients :
        (Listed(c) /\ reply[c].offset >= Cardinality(projects)) =>
            /\ reply[c].err # "panic"
            /\ reply[c].items = <<>>
            /\ ~reply[c].itemsNil

\* C16: for an offset below the number of stored projects and a limit that is
\* -1 or a count, ListDevOpsProject returns the projects at positions
\* offset .. min(offset+limit, count)-1 of the listing (counted from 0) in the
\* listing's order, to the end when limit is -1, and TotalItems is the number
\* of stored projects.
C16_PageIsTheRequestedRange ==
    \A c \in Clients :
        (Listed(c) /\ reply[c].offset < Cardinality(projects)) =>
            LET all == ListOrder(projects)
                count == Len(all)
                last == IF reply[c].limit = -1 \/ reply[c].offset + reply[c].limit > count
                        THEN count
                        ELSE reply[c].offset + reply[c].limit
            IN  /\ reply[c].err = "nil"
                /\ reply[c].total = count
                /\ Len(reply[c].items) = last - reply[c].offset
                /\ \A i \in 1..Len(reply[c].items) :
                        reply[c].items[i] = all[reply[c].offset + i].name
                /\ (reply[c].limit = -1 /\ reply[c].offset = 0) =>
                        Len(reply[c].items) = count
                /\ (reply[c].limit = 2 /\ reply[c].offset = count - 1) =>
                        Len(reply[c].items) = 1

\* C16 witness: of three listed projects, a listing with limit 2 and offset 2
\* has returned exactly the last one
C16_Witness ==
    /\ Listed(1)
    /\ Cardinality(projects) = 3
    /\ reply[1].limit = 2
    /\ reply[1].offset = 2
    /\ reply[1].total = 3
    /\ Len(reply[1].items) = 1
    /\ \A p \in projects : p.name <= reply[1].items[1]

(***************************************************************************)
(* The input-step submissions (devops.go:595-610, 769-784) and the body    *)
(* rewrite getInputReqBody (devops.go:1038-1067).  A JSON text is written  *)
(* member by member: id is "absent" or the string, parameters is "absent", *)
(* "null", "empty" (the list []) or "one" (a list of one parameter), abort *)
(* is "absent", "false", "true" or "wrongtype" (a value that is no bool).  *)
(***************************************************************************)
Ids == {"absent", "5", "7"}
ParameterTexts == {"absent", "null", "empty", "one"}
AbortTexts == {"absent", "false", "true", "wrongtype"}

Bodies ==
    {[kind |-> "unreadable", json |-> NoJSON], [kind |-> "syntax", json |-> NoJSON]}
    \cup {[kind |-> "object", json |-> [id |-> i, parameters |-> p, abort |-> a]] :
            i \in Ids, p \in ParameterTexts, a \in AbortTexts}

\* ioutil.ReadAll of the body: the bytes or the read error
ReadAll(body) == IF body.kind = "unreadable" THEN "ReadError" ELSE "nil"

\* json.Unmarshal into a CheckPlayload: a text that is not JSON leaves the
\* struct zero; in an object, an absent or null member leaves its field zero,
\* a member of the wrong type leaves its field zero and is the error returned
Unmarshal(body) ==
    IF body.kind # "object"
    THEN [err |-> "SyntaxError", ID |-> "", Parameters |-> "nil", Abort |-> FALSE]
    ELSE [err |-> IF body.json.abort = "wrongtype" THEN "UnmarshalTypeError" ELSE "nil",
          ID |-> IF body.json.id = "absent" THEN "" ELSE body.json.id,
          Parameters |-> IF body.json.parameters \in {"absent", "null"}
                         THEN "nil" ELSE body.json.parameters,
          Abort |-> body.json.abort = "true"]

\* a faulty workRound struct whose parameters member has omitempty too
MarshalWorkRoundOmitEmpty(ID) ==
    [id |-> IF ID = "" THEN "absent" ELSE ID, parameters |-> "absent",
     abort |-> "absent"]

\* json.Marshal of the workRound struct: id and abort have omitempty,
\* parameters has not; the struct's Abort is never set
MarshalWorkRound(ID) ==
    [id |-> IF ID = "" THEN "absent" ELSE ID, parameters |-> "empty",
     abort |-> "absent"]

\* json.Marshal of a CheckPlayload: the parsed values, member by member
MarshalCheckPlayload(checkBody) ==
    [id |-> IF checkBody.ID = "" THEN "absent" ELSE checkBody.ID,
     parameters |-> IF checkBody.Parameters = "nil" THEN "absent"
                    ELSE checkBody.Parameters,
     abort |-> IF checkBody.Abort THEN "true" ELSE "false"]

\* a faulty rewrite that takes the workRound branch whenever Parameters is nil
getInputReqBodyNilOnly(body) ==
    IF ReadAll(body) # "nil"
    THEN [err |-> ReadAll(body), body |-> NoJSON]
    ELSE LET checkBody == Unmarshal(body)
         IN  [err |-> "nil",
              body |-> IF checkBody.Parameters = "nil"
                       THEN MarshalWorkRound(checkBody.ID)
                       ELSE MarshalCheckPlayload(checkBody)]

\* getInputReqBody: the read error is returned; the error of json.Unmarshal is
\* assigned and never looked at
getInputReqBody(body) ==
    IF ReadAll(body) # "nil"
    THEN [err |-> ReadAll(body), body |-> NoJSON]
    ELSE LET checkBody == Unmarshal(body)
         IN  [err |-> "nil",
              body |-> IF ~checkBody.Abort /\ checkBody.Parameters = "nil"
                       THEN MarshalWorkRound(checkBody.ID)
                       ELSE MarshalCheckPlayload(checkBody)]

\* an input-step submission: rewrites the body and, unless the rewrite failed,
\* forwards the request to the remote engine, which answers or fails
InputStep(c, op, body, engineFails) ==
    /\ CanInvoke(c)
    /\ ops' = ops + 1
    /\ LET new == getInputReqBody(body)
           r == [NoReply EXCEPT !.seq = ops + 1, !.op = op, !.body = body,
                                !.at = now]
       IN  IF new.err # "nil"
           THEN /\ Finish(c, [r EXCEPT !.err = new.err])
                /\ UNCHANGED engine
           ELSE /\ engine' = [engine EXCEPT !.sent = @ + 1, !.body = new.body]
                /\ Finish(c, [r EXCEPT !.err = IF engineFails THEN "UpstreamError"
                                                ELSE "nil"])
    /\ UNCHANGED <<aggVars, credVars, projects, pipelines, now, calls>>

SubmitInputStep(c, body, engineFails) ==
    InputStep(c, "SubmitInputStep", body, engineFails)

SubmitBranchInputStep(c, body, engineFails) ==
    InputStep(c, "SubmitBranchInputStep", body, engineFails)

InitInput == AggStart /\ variant = "GetNodesDetail" /\ ResStart /\ EngineStart /\ CredStart

NextInput ==
    \/ \E b \in Bodies, f \in BOOLEAN : SubmitInputStep(1, b, f)
    \/ \E b \in Bodies, f \in BOOLEAN : SubmitBranchInputStep(1, b, f)

SpecInput == InitInput /\ [][NextInput]_vars

\* a step in which an input-step submission of caller c returns
Submitted(c) ==
    Returns(c, "SubmitInputStep") \/ Returns(c, "SubmitBranchInputStep")

\* the values a JSON text of the {id, parameters, abort} shape carries
ValuesOf(json) == Unmarshal([kind |-> "object", json |-> json])

C18_OtherPayloadsAreForwardedWithTheirValues ==
    [][\A c \in Clients :
        (/\ Submitted(c)
         /\ reply'[c].body.kind = "object"
         /\ \/ reply'[c].body.json.abort = "true"
            \/ reply'[c].body.json.parameters = "one") =>
            /\ engine'.sent = engine.sent + 1
            /\ ValuesOf(engine'.body).ID = ValuesOf(reply'[c].body.json).ID
            /\ ValuesOf(engine'.body).Parameters
                    = ValuesOf(reply'[c].body.json).Parameters
            /\ ValuesOf(engine'.body).Abort = ValuesOf(reply'[c].body.json).Abort]_vars

\* C18 witness: the payload {"id":"5","abort":true} has been forwarded with
\* abort true and no parameters
C18_Witness ==
    /\ reply[1].op = "SubmitBranchInputStep"
    /\ reply[1].err = "nil"
    /\ reply[1].body = [kind |-> "object",
                        json |-> [id |-> "5", parameters |-> "absent",
                                  abort |-> "true"]]
    /\ engine.sent = 1
    /\ engine.body.id = "5"
    /\ engine.body.abort = "true"
    /\ engine.body.parameters # "empty"

\* C19 as claimed: a submission whose body cannot be read, or is not valid
\* JSON for the {id, parameters, abort} shape, returns the read or parse error
\* and nothing is forwarded to the remote engine.
C19_UnreadableOrInvalidBodyIsAnErrorAndNotForwarded ==
    [][\A c \in Clients :
        (/\ Submitted(c)
         /\ \/ ReadAll(reply'[c].body) # "nil"
            \/ Unmarshal(reply'[c].body).err # "nil") =>
            /\ reply'[c].err \in {"ReadError", "SyntaxError", "UnmarshalTypeError"}
            /\ engine' = engine]_vars

(***************************************************************************)
(* CreateSCMServers (devops.go:908-943).  An ApiURL is a sequence of       *)
(* characters.                                                             *)
(***************************************************************************)
ApiURLs == {<<"u">>, <<"u", "/">>, <<"u", "/", "/">>, <<"v">>}

\* strings.TrimSuffix(s, "/")
TrimSuffix(s) ==
    IF Len(s) > 0 /\ s[Len(s)] = "/" THEN SubSeq(s, 1, Len(s) - 1) ELSE s

\* a faulty loop that compares the entries' ApiURL as the engine returned it
FindServerUntrimmed(servers, apiURL) ==
    {i \in 1..Len(servers) : servers[i].apiUrl = apiURL}

\* the loop over the servers: the positions of the entries whose ApiURL,
\* trailing slash stripped, is the request's stripped ApiURL
FindServer(servers, apiURL) ==
    {i \in 1..Len(servers) : TrimSuffix(servers[i].apiUrl) = apiURL}

\* the remote engine's create: the servers of the SCM kind after the engine
\* has stored a server with the ApiURL of the posted body
RemoteCreate(servers, apiUrl) ==
    Append(servers, [id |-> Len(servers) + 1, apiUrl |-> apiUrl])

\* CreateSCMServers: reads and parses the body, lists the servers of the SCM
\* kind, returns the first entry with the request's ApiURL if there is one, and
\* else posts the body as it came (its ApiURL not stripped) to the remote
\* engine, which stores the server unless it fails
CreateSCMServers(c, scmId, kind, apiUrl, listFails, createFails) ==
    /\ CanInvoke(c)
    /\ ops' = ops + 1
    /\ LET r == [NoReply EXCEPT !.seq = ops + 1, !.op = "CreateSCMServers",
                                !.scmId = scmId, !.apiUrl = apiUrl, !.at = now,
                                !.body = [kind |-> kind, json |-> NoJSON]]
           servers == engine.servers[scmId]
           found == FindServer(servers, TrimSuffix(apiUrl))
           created == RemoteCreate(servers, apiUrl)
       IN  IF kind = "unreadable"
           THEN Finish(c, [r EXCEPT !.err = "ReadError"]) /\ UNCHANGED engine
           ELSE IF kind = "syntax"
           THEN Finish(c, [r EXCEPT !.err = "SyntaxError"]) /\ UNCHANGED engine
           ELSE IF listFails
           THEN Finish(c, [r EXCEPT !.err = "UpstreamError"]) /\ UNCHANGED engine
           ELSE IF found # {}
           THEN /\ Finish(c, [r EXCEPT !.server =
                        servers[CHOOSE i \in found : \A j \in found : i <= j]])
                /\ UNCHANGED engine
           ELSE IF createFails
           THEN /\ Finish(c, [r EXCEPT !.err = "UpstreamError"])
                /\ engine' = [engine EXCEPT !.creates = @ + 1]
           ELSE /\ Finish(c, [r EXCEPT !.server = created[Len(created)]])
                /\ engine' = [engine EXCEPT !.creates = @ + 1,
                                            !.servers[scmId] = created]
    /\ UNCHANGED <<aggVars, credVars, projects, pipelines, now, calls>>

NextSCM ==
    \E k \in ScmIds, b \in {"unreadable", "syntax", "object"}, u \in ApiURLs,
       lf \in BOOLEAN, cf \in BOOLEAN :
            CreateSCMServers(1, k, b, u, lf, cf)

SpecSCM == InitInput /\ [][NextSCM]_vars

\* the entries of SCM kind k whose ApiURL equals u after a trailing slash is
\* stripped from both
SameApiURL(k, u) ==
    {s \in {engine.servers[k][i] : i \in 1..Len(engine.servers[k])} :
        TrimSuffix(s.apiUrl) = TrimSuffix(u)}

\* C20: a CreateSCMServers call that succeeds when the engine already holds a
\* server of that SCM kind with the same ApiURL (a trailing slash stripped)
\* issues no create call, creates nothing and returns that entry; one that
\* succeeds when there is no such server has issued exactly one create call
\* and the engine holds exactly one more server, the one returned.
C20_SecondCreateReturnsTheExistingServer ==
    [][\A c \in Clients :
        (Returns(c, "CreateSCMServers") /\ reply'[c].err = "nil") =>
            LET k == reply'[c].scmId
            IN  IF SameApiURL(k, reply'[c].apiUrl) # {}
                THEN /\ engine' = engine
                     /\ reply'[c].server \in SameApiURL(k, reply'[c].apiUrl)
                ELSE /\ engine'.creates = engine.creates + 1
                     /\ engine'.servers =
                            [engine.servers EXCEPT ![k] = Append(@, reply'[c].server)]
                     /\ TrimSuffix(reply'[c].server.apiUrl)
                            = TrimSuffix(reply'[c].apiUrl)]_vars

\* C20 witness: two calls for one SCM kind, the first with ApiURL u/ and the
\* second with u, have both succeeded; one create call was issued, the engine
\* holds one server and the second call returned it
C20_Witness ==
    /\ ops = 2
    /\ reply[1].op = "CreateSCMServers"
    /\ reply[1].err = "nil"
    /\ reply[1].seq = 2
    /\ reply[1].apiUrl = <<"u">>
    /\ engine.creates = 1
    /\ engine.servers[reply[1].scmId] = <<[id |-> 1, apiUrl |-> <<"u", "/">>]>>
    /\ reply[1].server = engine.servers[reply[1].scmId][1]
    /\ \A k \in ScmIds \ {reply[1].scmId} : engine.servers[k] = <<>>

(***************************************************************************)
(* The forwarding operations that may set the HTTP method: StopPipeline    *)
(* and ReplayPipeline (devops.go:508-529), StopBranchPipeline and          *)
(* ReplayBranchPipeline (680-701), GetSCMServers (875-883).                *)
(***************************************************************************)
Methods == {"GET", "POST", "PUT", "DELETE"}

\* convertToHttpParameters and the call of the remote engine's client: the
\* request leaves with the method req.Method has by then
Forward(c, op, inbound, method, engineFails) ==
    /\ CanInvoke(c)
    /\ ops' = ops + 1
    /\ engine' = [engine EXCEPT !.sent = @ + 1, !.method = method]
    /\ Finish(c, [NoReply EXCEPT !.seq = ops + 1, !.op = op, !.method = inbound,
                                 !.at = now,
                                 !.err = IF engineFails THEN "UpstreamError"
                                         ELSE "nil"])
    /\ UNCHANGED <<aggVars, credVars, projects, pipelines, now, calls>>

\* a faulty StopPipeline that leaves req.Method as it came
StopPipelineAsInbound(c, method, engineFails) ==
    Forward(c, "StopPipeline", method, method, engineFails)

\* req.Method = http.MethodPut, then the client's StopPipeline
StopPipeline(c, method, engineFails) ==
    Forward(c, "StopPipeline", method, "PUT", engineFails)

\* the client's ReplayPipeline with the request as it came
ReplayPipeline(c, method, engineFails) ==
    Forward(c, "ReplayPipeline", method, method, engineFails)

\* req.Method = http.MethodPut, then the client's StopBranchPipeline
StopBranchPipeline(c, method, engineFails) ==
    Forward(c, "StopBranchPipeline", method, "PUT", engineFails)

\* the client's ReplayBranchPipeline with the request as it came
ReplayBranchPipeline(c, method, engineFails) ==
    Forward(c, "ReplayBranchPipeline", method, method, engineFails)

\* req.Method = http.MethodGet, then the client's GetSCMServers
GetSCMServers(c, method, engineFails) ==
    Forward(c, "GetSCMServers", method, "GET", engineFails)

NextForward ==
    \E m \in Methods, f \in BOOLEAN :
        \/ StopPipeline(1, m, f)
        \/ ReplayPipeline(1, m, f)
        \/ StopBranchPipeline(1, m, f)
        \/ ReplayBranchPipeline(1, m, f)
        \/ GetSCMServers(1, m, f)

SpecForward == InitInput /\ [][NextForward]_vars

\* C21 as claimed: the two stop and the two replay operations forward with
\* method PUT and GetSCMServers with method GET, whatever method the inbound
\* request has.
C21_StopAndReplayForwardAsPut ==
    \A c \in Clients :
        /\ reply[c].op \in {"StopPipeline", "StopBranchPipeline", "ReplayPipeline",
                            "ReplayBranchPipeline"} => engine.method = "PUT"
        /\ reply[c].op = "GetSCMServers" => engine.method = "GET"

\* C21 amended: the two stop operations forward with method PUT and
\* GetSCMServers with method GET, whatever method the inbound request has; the
\* two replay operations forward with the method of the inbound request.
C21_StopForwardsAsPutReplayAsInbound ==
    \A c \in Clients :
        /\ reply[c].op \in {"StopPipeline", "StopBranchPipeline"} =>
                engine.method = "PUT"
        /\ reply[c].op = "GetSCMServers" => engine.method = "GET"
        /\ reply[c].op \in {"ReplayPipeline", "ReplayBranchPipeline"} =>
                engine.method = reply[c].method

\* C21 witness: a StopPipeline that came as POST has been forwarded as PUT,
\* after other requests
C21_Witness ==
    /\ reply[1].op = "StopPipeline"
    /\ reply[1].method = "POST"
    /\ engine.method = "PUT"
    /\ engine.sent = 2

(***************************************************************************)
(* Claims about errors of the resource store.                              *)
(***************************************************************************)
\* C22 as claimed: an operation to which the resource store returned an error
\* returns that error to its caller, and so never a nil error.
C22_StoreErrorsAreReturned ==
    \A c \in Clients : reply[c].storeErr # "nil" => reply[c].err = reply[c].storeErr

(***************************************************************************)
(* ListPipelineObj (devops.go:362-387): the list handed to DefaultList.    *)
(***************************************************************************)
RECURSIVE PipelineItems(_)
\* the store's List of a namespace: the stored pipelines, one after the other
PipelineItems(ps) ==
    IF ps = {} THEN <<>>
    ELSE LET first == CHOOSE q \in ps : TRUE
         IN  <<first>> \o PipelineItems(ps \ {first})

RECURSIVE AppendMatching(_, _, _)
\* the loop over pipelines.Items: appends to result the name of every item that
\* passes the type filter ("" is a query without one)
AppendMatching(result, items, filter) ==
    IF items = <<>> THEN result
    ELSE AppendMatching(IF filter # "" /\ Head(items).type # filter
                        THEN result
                        ELSE Append(result, Head(items).name),
                        Tail(items), filter)

\* make([]runtime.Object, len(pipelines.Items)): a slice of that many nil
\* entries
MakeResult(n) == [i \in 1..n |-> "nil"]

\* ListPipelineObj: gets the project, lists the pipelines of its namespace and
\* hands the result of the loop to DefaultList
ListPipelineObj(c, projectName, filter) ==
    /\ CanInvoke(c)
    /\ ops' = ops + 1
    /\ LET r == [NoReply EXCEPT !.seq = ops + 1, !.op = "ListPipelineObj",
                                !.name = projectName, !.filter = filter,
                                !.at = now]
           items == PipelineItems({q \in pipelines : q.ns = projectName})
       IN  IF projectName \notin ProjectNames(projects)
           THEN Finish(c, [r EXCEPT !.err = "NotFound", !.storeErr = "NotFound"])
           ELSE Finish(c, [r EXCEPT !.items = AppendMatching(MakeResult(Len(items)),
                                                             items, filter),
                                    !.itemsNil = FALSE])
    /\ UNCHANGED <<aggVars, credVars, engVars, projects, pipelines, now, calls>>

\* creations and deletions of pipelines, and listings between them
NextPipelineList ==
    \/ \E n \in ProjectArgs, pl \in PipelinePayloads : CreatePipelineObj(1, n, pl)
    \/ \E n \in ProjectArgs, pn \in PipelineNames : DeletePipelineObj(1, n, pn)
    \/ \E n \in ProjectArgs, f \in {"", "pipeline", "multi-branch-pipeline"} :
            ListPipelineObj(1, n, f)

SpecPipelineList == InitPipeline /\ [][NextPipelineList]_vars

\* the stored pipelines a ListPipelineObj of caller c has to list
Matching(c) ==
    {q \in pipelines : /\ q.ns = reply[c].name
                       /\ reply[c].filter # "" => q.type = reply[c].filter}

\* C23 as claimed: the list a successful ListPipelineObj hands to the
\* paginate/sort/filter routine holds each pipeline of the project's namespace
\* that passes the type filter exactly once and no other entry, so its length
\* is the number of these pipelines.
C23_ListHoldsExactlyTheMatchingPipelines ==
    \A c \in Clients :
        (reply[c].op = "ListPipelineObj" /\ reply[c].err = "nil") =>
            /\ Len(reply[c].items) = Cardinality(Matching(c))
            /\ \A i \in 1..Len(reply[c].items) :
                    \E q \in Matching(c) : reply[c].items[i] = q.name
            /\ \A q \in Matching(c) :
                    Cardinality({i \in 1..Len(reply[c].items) :
                                    reply[c].items[i] = q.name}) = 1

(***************************************************************************)
(* The credential operations (devops.go:390-470).  A credential is a       *)
(* Secret in the project's AdminNamespace, written here as the project's   *)
(* name.                                                                   *)
(***************************************************************************)
SecretNames == {"s1", "s2"}

\* v1alpha3.GetSupportedCredentialTypes(): the allow-list, in its order
SupportedCredentialTypes == <<"basic-auth", "ssh-auth">>

\* the types of the secrets a namespace may hold
SecretTypes == {"basic-auth", "ssh-auth", "Opaque"}

\* the Secret objects a caller may send
SecretPayloads ==
    {[NoSecret EXCEPT !.name = n, !.type = t] : n \in SecretNames, t \in SecretTypes}

\* secretutil.MaskCredential: the secret with its sensitive fields redacted
MaskCredential(secret) == [secret EXCEPT !.masked = TRUE]

StoredSecret(ns, name) == {q \in secrets : q.ns = ns /\ q.name = name}

\* what a credential operation returns: its error and the secrets it hands back
CredentialReply(c, op, e, projectName, returned) ==
    Finish(c, [NoReply EXCEPT !.seq = ops + 1, !.op = op, !.err = e,
                              !.storeErr = e, !.name = projectName, !.at = now,
                              !.secrets = returned,
                              !.syncStatus = IF returned = <<>> THEN ""
                                             ELSE returned[1].syncStatus,
                              !.syncTime = IF returned = <<>> THEN 0
                                           ELSE returned[1].syncTime])

\* the three credential sync annotations set on the caller's secret
StampSecret(secret, projectName) ==
    [secret EXCEPT !.ns = projectName, !.syncStatus = StatusPending,
                   !.syncTime = now]

\* CreateCredentialObj: gets the project, stamps the secret, has the store
\* create it and returns the created secret masked
CreateCredentialObj(c, projectName, secret) ==
    /\ CanInvoke(c)
    /\ ops' = ops + 1
    /\ IF projectName \notin ProjectNames(projects)
       THEN /\ CredentialReply(c, "CreateCredentialObj", "NotFound", projectName, <<>>)
            /\ UNCHANGED <<secrets, now>>
       ELSE /\ now' = now + 1
            /\ IF StoredSecret(projectName, secret.name) # {}
               THEN /\ CredentialReply(c, "CreateCredentialObj", "AlreadyExists",
                                       projectName, <<>>)
                    /\ UNCHANGED secrets
               ELSE LET obj == StampSecret(secret, projectName)
                    IN  /\ secrets' = secrets \cup {obj}
                        /\ CredentialReply(c, "CreateCredentialObj", "nil",
                                           projectName, <<MaskCredential(obj)>>)
    /\ UNCHANGED <<aggVars, engVars, projects, pipelines, calls>>

\* a faulty GetCredentialObj that returns the secret as the store holds it
GetCredentialObjUnmasked(c, projectName, secretName) ==
    /\ CanInvoke(c)
    /\ ops' = ops + 1
    /\ IF projectName \notin ProjectNames(projects)
          \/ StoredSecret(projectName, secretName) = {}
       THEN CredentialReply(c, "GetCredentialObj", "NotFound", projectName, <<>>)
       ELSE CredentialReply(c, "GetCredentialObj", "nil", projectName,
                <<CHOOSE q \in StoredSecret(projectName, secretName) : TRUE>>)
    /\ UNCHANGED <<aggVars, engVars, projects, pipelines, now, calls, secrets>>

\* GetCredentialObj: gets the project and the secret, returns the secret masked
GetCredentialObj(c, projectName, secretName) ==
    /\ CanInvoke(c)
    /\ ops' = ops + 1
    /\ IF projectName \notin ProjectNames(projects)
          \/ StoredSecret(projectName, secretName) = {}
       THEN CredentialReply(c, "GetCredentialObj", "NotFound", projectName, <<>>)
       ELSE CredentialReply(c, "GetCredentialObj", "nil", projectName,
                <<MaskCredential(CHOOSE q \in StoredSecret(projectName, secretName) :
                                    TRUE)>>)
    /\ UNCHANGED <<aggVars, engVars, projects, pipelines, now, calls, secrets>>

\* DeleteCredentialObj: gets the project, then the store's Delete
DeleteCredentialObj(c, projectName, secretName) ==
    /\ CanInvoke(c)
    /\ ops' = ops + 1
    /\ IF projectName \notin ProjectNames(projects)
          \/ StoredSecret(projectName, secretName) = {}
       THEN /\ CredentialReply(c, "DeleteCredentialObj", "NotFound", projectName, <<>>)
            /\ UNCHANGED secrets
       ELSE /\ secrets' = secrets \ StoredSecret(projectName, secretName)
            /\ CredentialReply(c, "DeleteCredentialObj", "nil", projectName, <<>>)
    /\ UNCHANGED <<aggVars, engVars, projects, pipelines, now, calls>>

\* UpdateCredentialObj: gets the project, stamps the secret, has the store
\* update it and returns the updated secret masked
UpdateCredentialObj(c, projectName, secret) ==
    /\ CanInvoke(c)
    /\ ops' = ops + 1
    /\ IF projectName \notin ProjectNames(projects)
       THEN /\ CredentialReply(c, "UpdateCredentialObj", "NotFound", projectName, <<>>)
            /\ UNCHANGED <<secrets, now>>
       ELSE /\ now' = now + 1
            /\ IF StoredSecret(projectName, secret.name) = {}
               THEN /\ CredentialReply(c, "UpdateCredentialObj", "NotFound",
                                       projectName, <<>>)
                    /\ UNCHANGED secrets
               ELSE LET obj == StampSecret(secret, projectName)
                    IN  /\ secrets' = (secrets \ StoredSecret(projectName, secret.name))
                                        \cup {obj}
                        /\ CredentialReply(c, "UpdateCredentialObj", "nil",
                                           projectName, <<MaskCredential(obj)>>)
    /\ UNCHANGED <<aggVars, engVars, projects, pipelines, calls>>

RECURSIVE SecretItems(_)
\* the store's List of a namespace: the stored secrets, one after the other
SecretItems(ss) ==
    IF ss = {} THEN <<>>
    ELSE LET first == CHOOSE q \in ss : TRUE
         IN  <<first>> \o SecretItems(ss \ {first})

RECURSIVE AppendTyped(_, _, _)
\* the inner loop over the allow-list: appends the masked credential once for
\* every entry of the allow-list that equals its type
AppendTyped(result, credential, types) ==
    IF types = <<>> THEN result
    ELSE AppendTyped(IF credential.type = Head(types)
                     THEN Append(result, MaskCredential(credential))
                     ELSE result,
                     credential, Tail(types))

RECURSIVE AppendSupported(_, _)
\* the loop over credentialObjList.Items
AppendSupported(result, items) ==
    IF items = <<>> THEN result
    ELSE AppendSupported(AppendTyped(result, Head(items), SupportedCredentialTypes),
                         Tail(items))

\* a faulty ListCredentialObj that lists every secret of the namespace, masked
ListCredentialObjUnfiltered(c, projectName) ==
    /\ CanInvoke(c)
    /\ ops' = ops + 1
    /\ IF projectName \notin ProjectNames(projects)
       THEN CredentialReply(c, "ListCredentialObj", "NotFound", projectName, <<>>)
       ELSE LET items == SecretItems({q \in secrets : q.ns = projectName})
            IN  CredentialReply(c, "ListCredentialObj", "nil", projectName,
                    [i \in 1..Len(items) |-> MaskCredential(items[i])])
    /\ UNCHANGED <<aggVars, engVars, projects, pipelines, now, calls, secrets>>

\* ListCredentialObj: gets the project, lists the secrets of its namespace and
\* hands the result of the loop to DefaultList
ListCredentialObj(c, projectName) ==
    /\ CanInvoke(c)
    /\ ops' = ops + 1
    /\ IF projectName \notin ProjectNames(projects)
       THEN CredentialReply(c, "ListCredentialObj", "NotFound", projectName, <<>>)
       ELSE CredentialReply(c, "ListCredentialObj", "nil", projectName,
                AppendSupported(<<>>, SecretItems({q \in secrets : q.ns = projectName})))
    /\ UNCHANGED <<aggVars, engVars, projects, pipelines, now, calls, secrets>>

NextCredential ==
    \/ \E n \in ProjectArgs, s \in SecretPayloads : CreateCredentialObj(1, n, s)
    \/ \E n \in ProjectArgs, s \in SecretNames : GetCredentialObj(1, n, s)
    \/ \E n \in ProjectArgs, s \in SecretNames : DeleteCredentialObj(1, n, s)
    \/ \E n \in ProjectArgs, s \in SecretPayloads : UpdateCredentialObj(1, n, s)
    \/ \E n \in ProjectArgs : ListCredentialObj(1, n)

SpecCredential == InitPipeline /\ [][NextCredential]_vars

\* C24: every secret that CreateCredentialObj, GetCredentialObj or
\* UpdateCredentialObj returns, and every item ListCredentialObj returns, is
\* what the masking gives for a secret the store holds: none is unmasked.
C24_ReturnedCredentialsAreMasked ==
    \A c \in Clients :
        (/\ reply[c].op \in {"CreateCredentialObj", "GetCredentialObj",
                             "UpdateCredentialObj", "ListCredentialObj"}
         /\ reply[c].err = "nil") =>
            /\ reply[c].op # "ListCredentialObj" => Len(reply[c].secrets) = 1
            /\ \A i \in 1..Len(reply[c].secrets) :
                /\ reply[c].secrets[i].masked
                /\ \E q \in secrets : /\ ~q.masked
                                      /\ reply[c].secrets[i] = MaskCredential(q)

\* C24 witness: a GetCredentialObj has returned a stored secret, masked, and the
\* store holds it unmasked
C24_Witness ==
    /\ reply[1].op = "GetCredentialObj"
    /\ reply[1].err = "nil"
    /\ Len(reply[1].secrets) = 1
    /\ reply[1].secrets[1].masked
    /\ \E q \in secrets : q.name = reply[1].secrets[1].name /\ ~q.masked

\* the stored secrets of the namespace a ListCredentialObj of caller c listed
Listable(c) == {q \in secrets : q.ns = reply[c].name}

\* C25: ListCredentialObj lists a secret of the project's namespace exactly
\* once when its type is in the allow-list of supported credential types, and
\* not at all when it is of another type.
C25_ListHoldsExactlyTheSupportedTypes ==
    \A c \in Clients :
        (reply[c].op = "ListCredentialObj" /\ reply[c].err = "nil") =>
            /\ \A q \in Listable(c) :
                Cardinality({i \in 1..Len(reply[c].secrets) :
                                reply[c].secrets[i].name = q.name})
                    = IF \E j \in 1..Len(SupportedCredentialTypes) :
                            SupportedCredentialTypes[j] = q.type
                      THEN 1 ELSE 0
            /\ \A i \in 1..Len(reply[c].secrets) :
                \E q \in Listable(c) : reply[c].secrets[i].name = q.name

\* C25 witness: of a supported credential and an Opaque secret in the
\* namespace, ListCredentialObj has returned the credential only
C25_Witness ==
    /\ reply[1].op = "ListCredentialObj"
    /\ reply[1].err = "nil"
    /\ Len(reply[1].secrets) = 1
    /\ reply[1].secrets[1].type = "ssh-auth"
    /\ \E q \in Listable(1) : q.type = "Opaque"
    /\ Cardinality(Listable(1)) = 2

\* C26: after a successful CreatePipelineObj the project read back from the
\* store carries the pipeline-sync status Pending and the sync time of that
\* call.
C26_CreatePipelineStampsTheStoredProject ==
    [][\A c \in Clients :
        (Returns(c, "CreatePipelineObj") /\ reply'[c].err = "nil") =>
            \A p \in projects' :
                p.name = reply'[c].pipeline.ns =>
                    /\ p.pipelineSyncStatus = StatusPending
                    /\ p.pipelineSyncTime = reply'[c].at]_vars

\* C27: a CreateDevOpsProject whose generateName is empty returns the Invalid
\* error in the step it is called, whatever the store holds: it does not reach
\* the uniqueness scan (a project of the workspace with an empty generateName
\* does not turn the error into Conflict), draws no sync time and leaves the
\* store's projects as they were.
C27_EmptyGenerateNameIsInvalidBeforeTheStore ==
    [][\A c \in Clients :
        (Returns(c, "CreateDevOpsProject") /\ reply'[c].generateName = "") =>
            /\ reply'[c].err = "Invalid"
            /\ calls[c].pc = "idle"
            /\ calls'[c].pc = "idle"
            /\ projects' = projects
            /\ now' = now]_vars

\* C27 witness: the call was refused as Invalid while the workspace held a
\* project with an empty generateName, which a scan would have found
C27_Witness ==
    /\ reply[1].op = "CreateDevOpsProject"
    /\ reply[1].generateName = ""
    /\ reply[1].err = "Invalid"
    /\ \E p \in projects : p.workspace = reply[1].workspace /\ p.generateName = ""

(***************************************************************************)
(* updateToken (s2ibuild_types.go:252-266): the token of the devops        *)
(* section of a YAML text.                                                 *)
(***************************************************************************)
Tokens == {"", "token"}
Passwords == {"none", "absent", "", "fake"}

\* the texts a caller may pass: a text that does not decode carries no
\* sections
YamlTexts ==
    {NoText}
        \cup {[valid |-> TRUE, layout |-> l, devops |-> d, other |-> o] :
                l \in {"marshalled", "trimmed", "other"}, d \in Passwords,
                o \in BOOLEAN}

\* yaml.Unmarshal into a map[string]map[string]string: an error, or the
\* sections of the text
yamlUnmarshal(content) ==
    IF content.valid
    THEN [err |-> "nil", dataMap |-> [devops |-> content.devops, other |-> content.other]]
    ELSE [err |-> "error", dataMap |-> [devops |-> "none", other |-> FALSE]]

\* yaml.Marshal of the map: the encoder's layout, ending in a line break
yamlMarshal(dataMap) ==
    [valid |-> TRUE, layout |-> "marshalled", devops |-> dataMap.devops,
     other |-> dataMap.other]

\* strings.TrimSpace of an encoder's output
TrimSpace(text) ==
    IF text.layout = "marshalled" THEN [text EXCEPT !.layout = "trimmed"] ELSE text

\* a faulty updateToken that sets the password whenever override is true
updateTokenWheneverOverride(content, token, override) ==
    LET u == yamlUnmarshal(content)
    IN  IF u.err = "nil" /\ u.dataMap.devops # "none"
        THEN TrimSpace(yamlMarshal(IF override
                                   THEN [u.dataMap EXCEPT !.devops = token]
                                   ELSE u.dataMap))
        ELSE content

\* updateToken: decodes the text; with a devops section, sets its password to
\* the token when the password is not empty and override is true, and returns
\* the trimmed encoding of the map; returns the text itself otherwise
updateToken(content, token, override) ==
    LET u == yamlUnmarshal(content)
    IN  IF u.err = "nil" /\ u.dataMap.devops # "none"
        THEN TrimSpace(yamlMarshal(
                IF u.dataMap.devops \notin {"absent", ""} /\ override
                THEN [u.dataMap EXCEPT !.devops = token]
                ELSE u.dataMap))
        ELSE content

\* one call of updateToken
Call_updateToken(c, content, token, override) ==
    /\ CanInvoke(c)
    /\ ops' = ops + 1
    /\ Finish(c, [NoReply EXCEPT !.seq = ops + 1, !.op = "updateToken",
                                 !.content = content, !.token = token,
                                 !.override = override,
                                 !.result = updateToken(content, token, override)])
    /\ UNCHANGED <<aggVars, credVars, engVars, projects, pipelines, now, calls>>

NextToken ==
    \E content \in YamlTexts, token \in Tokens, override \in BOOLEAN :
        Call_updateToken(1, content, token, override)

SpecToken == InitInput /\ [][NextToken]_vars

\* C28: updateToken returns the content itself when the content does not
\* decode or has no devops section; with a devops section the result's
\* password is the token when override is true and the password was not empty,
\* and the password of the content otherwise, and the result's other sections
\* are the content's.
C28_UpdateTokenReplacesOnlyANonEmptyPasswordOnOverride ==
    \A c \in Clients :
        reply[c].op = "updateToken" =>
            LET content == reply[c].content
                result == reply[c].result
            IN  IF ~content.valid \/ content.devops = "none"
                THEN result = content
                ELSE /\ result.valid
                     /\ result.other = content.other
                     /\ result.devops =
                            IF reply[c].override /\ content.devops \notin {"absent", ""}
                            THEN reply[c].token
                            ELSE content.devops

\* C28 witness: with override, a devops section with an empty password kept it
\* although a token was given
C28_Witness ==
    /\ reply[1].op = "updateToken"
    /\ reply[1].override
    /\ reply[1].token = "token"
    /\ reply[1].content.valid
    /\ reply[1].content.devops = ""
    /\ reply[1].result.devops = ""

(***************************************************************************)
(* UpdatePipelineObj and UpdateJenkinsfile of several callers on one       *)
(* stored pipeline, their store accesses interleaved.                      *)
(***************************************************************************)
\* a store that holds the project and its pipeline p1 with the Jenkinsfile j1,
\* created through CreatePipelineObj
InitRace ==
    /\ AggStart
    /\ EngineStart /\ CredStart
    /\ variant = "GetNodesDetail"
    /\ projects = {[pipelineSyncStatus |-> "", pipelineSyncTime |-> 0,
                    name |-> 1, generateName |-> "a", workspace |-> "w1",
                    syncStatus |-> StatusSynced, syncTime |-> 1]}
    /\ pipelines = {[NoPipeline EXCEPT !.name = "p1", !.ns = 1, !.rv = 1,
                                       !.hasPipeline = TRUE, !.jenkinsfile = "j1",
                                       !.type = "pipeline"]}
    /\ now = 3
    /\ ops = 0
    /\ calls = [c \in Clients |-> Idle]
    /\ reply = [c \in Clients |-> NoReply]

NextRace ==
    \E c \in Clients :
        \/ \E pl \in {p \in PipelinePayloads : p.name = "p1"} :
                UpdatePipelineObj_Get(c, 1, pl)
        \/ UpdatePipelineObj_Update(c)
        \/ \E m \in EditModes, j \in Jenkinsfiles : UpdateJenkinsfile_Get(c, 1, "p1", m, j)
        \/ UpdateJenkinsfile_Update(c)

SpecRace == InitRace /\ [][NextRace]_vars

\* a step in which the store takes the write of UpdatePipelineObj call c
PipelineWritten(c) ==
    /\ calls[c].pc = "updatePipeline"
    /\ Returns(c, "UpdatePipelineObj")
    /\ reply'[c].err = "nil"

\* C29 as claimed: whatever the interleaving, a write of UpdatePipelineObj that
\* the store takes leaves a Jenkinsfile that a successful UpdateJenkinsfile
\* committed where it is: the spec's Jenkinsfile after a raw edit, the
\* Jenkinsfile-value annotation after a json edit; and a write whose version
\* token is stale is rejected and changes nothing.
C29_CommittedJenkinsfileSurvivesUpdatePipelineObj ==
    [][\A c \in Clients :
        /\ PipelineWritten(c) =>
            \A q \in Stored(calls[c].pipeline.ns, calls[c].pipeline.name) :
                /\ (q.editMode = PipelineJenkinsfileEditModeRaw /\ q.hasPipeline) =>
                        SpecJenkinsfile(Written(c)) = q.jenkinsfile
                /\ q.editMode = PipelineJenkinsfileEditModeJSON =>
                        Written(c).jfAnno = q.jfAnno
        /\ (/\ calls[c].pc = "updatePipeline"
            /\ Returns(c, "UpdatePipelineObj")
            /\ \E q \in Stored(calls[c].pipeline.ns, calls[c].pipeline.name) :
                    q.rv # calls[c].pipeline.rv) =>
                /\ reply'[c].err = "Conflict"
                /\ pipelines' = pipelines]_vars

\* the goroutines whose send has completed
Senders == {i \in Workers : wpc[i] \in {"sent", "done"}}

\* C30: in both variants the result channel is closed once, and only when
\* every goroutine that sends has completed its send and its wg.Done(): no
\* goroutine is at or before its send while the channel is closed, none has
\* panicked on a closed channel, the close is not reached on a channel that is
\* closed already and a closed channel stays closed; and when the call has
\* returned the node details, the channel is empty and the coordinator has
\* consumed the pair of every goroutine that sent, each once.
C30_ClosedOnceAfterAllSendsAndEverythingConsumed ==
    /\ \A i \in Workers : wpc[i] # "panic"
    /\ closed => \A i \in Workers : wpc[i] \notin {"call", "send", "sent"}
    /\ pc = "close" => ~closed
    /\ pc \in {"drain", "done"} => (closed \/ ret.isNil)
    /\ closed => pc \in {"drain", "done"}
    /\ (pc = "done" /\ ~ret.isNil) =>
        /\ stepChan = <<>>
        /\ \A i \in Workers :
            Cardinality({k \in 1..Len(delivered) : delivered[k] = i})
                = IF i \in Senders THEN 1 ELSE 0

\* C30 witness: the call has returned after two goroutines sent their pairs
\* and the coordinator consumed both from the closed channel
C30_Witness ==
    /\ pc = "done"
    /\ ~ret.isNil
    /\ closed
    /\ Cardinality(Senders) = 2
    /\ Len(delivered) = 2
    /\ variant = "GetBranchNodesDetail"

====
